---------------------------- MODULE Spec2Model ----------------------------
(***************************************************************************)
(* Model of app.js: the bot supervisor (startBot), the per-wallet loop     *)
(* (runWallet), the hourly quota wait (handleSessionLimit) and the two     *)
(* module-level quota variables sessionCount / lastSessionTime.            *)
(*                                                                         *)
(* JavaScript runs the loops on one thread; a loop gives up control only   *)
(* at an `await`.  Every action below is therefore one run-to-next-await   *)
(* segment of the code: it starts when the awaited call or timer of one    *)
(* loop settles and executes everything up to the next await of that loop. *)
(* loops[l].pc names the await a loop is suspended at.                     *)
(*                                                                         *)
(* Time is the index of the wall-clock hour (hour); instants inside one    *)
(* hour are not distinguished.  startMatch and startAutoMatch (lines       *)
(* 112-116) differ only in their arguments, so one set of actions stands   *)
(* for whichever of them config.matchMode selects.                         *)
(***************************************************************************)
EXTENDS Integers, Sequences, FiniteSets

\* ---------------------------------------------------------------- bounds
MaxLoops == 2       \* runWallet call chains ever left running (loop slots)
MaxCalls == 4       \* start calls counted per session; no further falsy result
MaxHour == 1        \* the clock stops advancing here
MaxSessions == 3    \* sessions getSessions returns ahead of the cool-down
MaxTimers == 2      \* countdown intervals alive when a reset-wait may still fail

\* ------------------------------------------------------ program constants
SessionLimit == 6   \* the literal 6 of `sessionCount >= 6`
maxRetries == 3
minDurationInit == 60

Min(a, b) == IF a < b THEN a ELSE b

Slots == 1..MaxLoops

\* null of line 32, below every clock value
Null == -1

\* ------------------------------------------------------------- the inputs
\* config.agentName
agentName == "target"

\* key.trim() is the empty string (falsy) exactly for a whitespace-only line.
IsBlank(line) == line \in {"", " "}

\* The lines data.split("\n") may yield when loadKeys reads data.txt.
DataFiles ==
  { <<"">>, <<"k1">>, <<"k1", "", "k2">>, <<" ", "k1", "bad">>, <<"bad">> }

\* The constructor of WalletManager derives the wallet from the key alone:
\* it throws on a malformed key and only then.
CtorThrows(key) == key = "bad"

\* agent.sessionType.sessionType and session.sessionType.sessionType are
\* flattened to the field sessionType.
Agent(n, t, a) == [name |-> n, sessionType |-> t, automationEnabled |-> a]

AgentLists ==
  { <<>>,
    << Agent("other", 2, FALSE) >>,
    << Agent("target", 1, FALSE) >>,
    << Agent("other", 2, FALSE), Agent("target", 1, TRUE) >> }

Session(t, d, r) == [sessionType |-> t, durationPerRound |-> d, rounds |-> r]

\* What getSessions may return: no session; a session of another type before
\* one of the target's type; two sessions of the target's type.
SessionLists ==
  { <<>>,
    << Session(2, 100, 2), Session(1, 15, 3) >>,
    << Session(1, 15, 3), Session(1, 100, 2) >> }

\* -------------------------------------------------------------- the state
VARIABLES
  botpc,            \* where the supervisor is: "loadConfig", "startBot"
                    \* (awaiting loadKeys), "awaitAll" (Promise.all),
                    \* "restartDelay" (Tools.delay(5000)), "exited"
  awaited,          \* the loops whose promises the current Promise.all holds
  critical,         \* error.message in the catch of startBot, "" outside it
  loops,            \* slot -> the runWallet call chain occupying it
  sessionCount,     \* line 31
  lastSessionTime,  \* line 32; Null or the hour of the last start
  hour,             \* the wall-clock hour
  startsInHour,     \* history: truthy start results within this hour
  own,              \* history: slot -> truthy start results of that loop
                    \* since it last left handleSessionLimit, counted up
                    \* to SessionLimit
  iter,             \* history: slot -> the remote calls of its current
                    \* iteration (made), the sessions its start calls were
                    \* for (starts), whether each settled start call of the
                    \* iteration resolved truthy (clean)
  parity,           \* history: parity of the falsy start results so far
  interruptible,    \* whether the Tools.delay of handleSessionLimit may reject
  timers            \* hour -> the active countdown intervals (line 47) whose
                    \* countdown runs out at the top of that hour

vars ==
  <<botpc, awaited, critical, loops, sessionCount, lastSessionTime, hour,
    startsInHour, own, iter, parity, interruptible, timers>>

\* The variables that only some specifications record: startsInHour and own
\* under SpecWallets, iter under SpecIter, parity under SpecFair,
\* interruptible and timers under SpecWaits.
history == <<startsInHour, own, iter, parity, interruptible, timers>>

\* The hours at whose top a countdown can run out.
Hours == 1..(MaxHour + 1)

NoTimers == [h \in Hours |-> 0]

NoCalls == [made |-> <<>>, starts |-> <<>>, clean |-> TRUE]

Unused ==
  [ pc |-> "unused", key |-> "", agents |-> <<>>, sessions |-> <<>>,
    idx |-> 0, retryCount |-> 0, resetAt |-> 0, minDuration |-> 0,
    \* history of the retry loop of the session at idx: start calls made,
    \* backoff delays begun, whether a call has resolved falsy
    calls |-> 0, backoffs |-> 0, sawFalsy |-> FALSE ]

\* error.message of the three errors startBot's try block can throw
NoDataFile == "Please create data.txt with your private keys (one per line)"
NoKeys == "No private keys found in data.txt"
CtorError == "WalletManager constructor"


TypeOK ==
  /\ botpc \in {"loadConfig", "startBot", "awaitAll", "restartDelay", "exited"}
  /\ awaited \subseteq Slots
  /\ critical \in {"", NoDataFile, NoKeys, CtorError}
  /\ DOMAIN loops = Slots
  /\ sessionCount \in Nat
  /\ lastSessionTime \in {Null} \cup (0..MaxHour)
  /\ hour \in 0..MaxHour
  /\ startsInHour \in Nat
  /\ own \in [Slots -> 0..SessionLimit]
  /\ DOMAIN iter = Slots
  /\ parity \in 0..1
  /\ interruptible \in BOOLEAN
  /\ DOMAIN timers = Hours

\* --------------------------------------------------------- pure functions
\* loadKeys, line 23: data.split("\n").filter((key) => key.trim())
LoadKeys(file) == SelectSeq(file, LAMBDA line : ~IsBlank(line))

\* Lines 71 and 124: sessionCount >= 6
QuotaReached(count) == count >= SessionLimit

\* Lines 35-37: the top of the next wall-clock hour.
NextHour(now) == now + 1

\* Line 39: nextHour - now, in hours; positive for every clock value.
RemainingTime(now) == NextHour(now) - now

\* Line 97: wallet.agents.find(agent => agent.name === config.agentName),
\* as the index of the first such agent, 0 for undefined.
FindTarget(agents) ==
  LET hits == { i \in 1..Len(agents) : agents[i].name = agentName }
  IN  IF hits = {} THEN 0 ELSE CHOOSE i \in hits : \A j \in hits : i <= j

TargetAgent(agents) == agents[FindTarget(agents)]

\* A for loop that forgets the comparison of line 104.
NextAny(sessions, target, from) ==
  IF from <= Len(sessions) THEN from ELSE 0

\* Line 104: the first position >= from of the for loop whose session has the
\* target agent's session type; 0 when the loop runs out.
NextMatching(sessions, target, from) ==
  LET hits == { i \in from..Len(sessions) :
                  target.sessionType = sessions[i].sessionType }
  IN  IF hits = {} THEN 0 ELSE CHOOSE i \in hits : \A j \in hits : i <= j

\* Lines 149-154: minDuration after the first n sessions of the second loop.
RECURSIVE MinDurationUpTo(_, _)
MinDurationUpTo(sessions, n) ==
  IF n = 0 THEN minDurationInit
  ELSE LET prev == MinDurationUpTo(sessions, n - 1)
           duration == sessions[n].durationPerRound * sessions[n].rounds
       IN  IF duration < prev THEN duration ELSE prev

\* A loop that compares each duration with 60 instead of the running minimum.
MinDurationLast(sessions) ==
  IF Len(sessions) = 0 THEN minDurationInit
  ELSE LET s == sessions[Len(sessions)]
       IN  Min(s.durationPerRound * s.rounds, minDurationInit)

MinDuration(sessions) == MinDurationUpTo(sessions, Len(sessions))

\* ------------------------------------------ run-to-next-await segments
\* The caller's locals while it awaits handleSessionLimit (lines 73, 126).
\* When the delay of handleSessionLimit cannot reject, the call is followed
\* by runWallet(key) alone and nothing reads `wallet` or the retry counters
\* again: they are dropped.  When it can, the catch around the call site
\* resumes with them.
Suspended(r) ==
  IF interruptible THEN r ELSE [Unused EXCEPT !.key = r.key]

\* Lines 34-58: handleSessionLimit up to its await of Tools.delay; the delay
\* lasts RemainingTime(now), so it cannot settle before hour NextHour(now).
HandleSessionLimit(r, now) ==
  LET w == [Suspended(r) EXCEPT !.pc = "resetWait"]
  IN  IF RemainingTime(now) > 0
        THEN [w EXCEPT !.resetAt = now + RemainingTime(now)]
        ELSE [w EXCEPT !.resetAt = now]

\* Lines 66-77: a call of runWallet(key) up to its first await.
RunWallet(key, count, now) ==
  LET fresh == [Unused EXCEPT !.key = key]
  IN  IF CtorThrows(key) THEN [fresh EXCEPT !.pc = "rejected"]
      ELSE IF QuotaReached(count) THEN HandleSessionLimit(fresh, now)
      ELSE [fresh EXCEPT !.pc = "connect"]

\* A catch that rethrows instead of waiting: the call chain rejects.
ErroredRethrows(r) == [Unused EXCEPT !.pc = "rejected", !.key = r.key]

\* Lines 162-166: the catch of runWallet up to its await of Tools.delay.  The
\* catch reads nothing of `wallet`, whose fields are dropped here.
Errored(r) == [Unused EXCEPT !.pc = "Errored", !.key = r.key]

\* Lines 149-159: the cool-down computation up to the await of Tools.delay.
CoolDown(r) ==
  [r EXCEPT !.pc = "coolDown", !.minDuration = MinDuration(r.sessions)]

\* Line 109: while (retryCount < maxRetries)
RetryLoopContinues(retryCount) == retryCount < maxRetries

\* A retry budget that is tested one failure late.
RetriesExhaustedLate(retryCount) == retryCount > maxRetries

\* Line 136: if (retryCount >= maxRetries) ... break
RetriesExhausted(retryCount) == retryCount >= maxRetries

\* A loop that ignores the automation flag.
MayStartAlways(target) == TRUE

\* Line 105: if (!targetAgent.automationEnabled)
MayStart(target) == ~target.automationEnabled

\* Lines 103-116, 143-159: the for loop over wallet.sessions from position
\* `from` up to the next await: the first start call of the next matching
\* session, or the cool-down delay when no start call is left to make.
Matching(r, from) ==
  LET target == TargetAgent(r.agents)
      j == NextMatching(r.sessions, target, from)
  IN  IF j = 0 \/ ~MayStart(target) \/ ~RetryLoopContinues(0)
        THEN CoolDown(r)
        ELSE [r EXCEPT !.pc = "startMatch", !.idx = j, !.retryCount = 0,
                       !.calls = 1, !.backoffs = 0, !.sawFalsy = FALSE]

\* Lines 84-101: after getFractalInfo, up to the next await.
AfterHydrate(r) ==
  IF Len(r.agents) = 0
    THEN [Unused EXCEPT !.pc = "noAgentsDelay", !.key = r.key]
  ELSE IF FindTarget(r.agents) = 0 THEN Errored(r)
  ELSE Matching(r, 1)

\* ------------------------------------------------------------------ Init
\* Line 16: the module awaits loadConfig() before anything else runs.
Init ==
  /\ interruptible = FALSE
  /\ botpc = "loadConfig"
  /\ awaited = {}
  /\ critical = ""
  /\ loops = [l \in Slots |-> Unused]
  /\ sessionCount = 0
  /\ lastSessionTime = Null
  /\ hour = 0
  /\ startsInHour = 0
  /\ own = [l \in Slots |-> 0]
  /\ iter = [l \in Slots |-> NoCalls]
  /\ parity = 0
  /\ timers = NoTimers

Running == botpc # "exited"

At(l, where) == Running /\ loops[l].pc = where

Set(l, r) == loops' = [loops EXCEPT ![l] = r]

quota == <<sessionCount, lastSessionTime>>

\* ------------------------------------------------------- the supervisor
\* Lines 6-16: loadConfig resolves, or logs and calls process.exit(1);
\* on success line 192 calls startBot, which runs to its await of loadKeys.
LoadConfig ==
  /\ botpc = "loadConfig"
  /\ \/ botpc' = "startBot"
     \/ botpc' = "exited"
  /\ UNCHANGED <<awaited, critical, loops, quota, hour>>

UsedSlots == { l \in Slots : loops[l].pc # "unused" }

\* Line 183: keys.map((key) => runWallet(key)); each call runs to its first
\* await before the next one is made.  A call whose constructor throws has
\* rejected by then and leaves nothing running; every other call takes the
\* next free slot.
Constructible(keys) == SelectSeq(keys, LAMBDA key : ~CtorThrows(key))

Launch(keys) ==
  LET base == Cardinality(UsedSlots)
      live == Constructible(keys)
  IN  [l \in Slots |->
        IF l > base /\ l <= base + Len(live)
          THEN RunWallet(live[l - base], sessionCount, hour)
          ELSE loops[l]]

\* Line 184: Promise.all rejects as soon as one of its promises has rejected.
AllRejects(keys) == \E i \in 1..Len(keys) : CtorThrows(keys[i])

\* A catch of startBot that calls process.exit(1) instead of restarting.
CriticalErrorExits == "exited"

\* Lines 185-187: the catch of startBot up to its await of Tools.delay(5000).
CriticalError == "restartDelay"

\* Lines 176-187: loadKeys settles and startBot runs on to its next await.
StartBot ==
  /\ botpc = "startBot"
  /\ \/ \* readFile rejects: loadKeys throws (lines 24-28)
        /\ botpc' = CriticalError
        /\ critical' = NoDataFile
        /\ UNCHANGED <<awaited, loops>>
     \/ \* no key left after the filter (lines 177-179)
        /\ \E file \in DataFiles : Len(LoadKeys(file)) = 0
        /\ botpc' = CriticalError
        /\ critical' = NoKeys
        /\ UNCHANGED <<awaited, loops>>
     \/ \E file \in DataFiles :
          LET keys == LoadKeys(file)
              base == Cardinality(UsedSlots)
              n == Len(Constructible(keys))
          IN  /\ Len(keys) # 0
              /\ base + n <= MaxLoops
              /\ loops' = Launch(keys)
              /\ awaited' = { l \in Slots : l > base /\ l <= base + n }
              /\ botpc' = IF AllRejects(keys) THEN CriticalError
                                              ELSE "awaitAll"
              /\ critical' = IF AllRejects(keys) THEN CtorError ELSE ""
  /\ UNCHANGED <<quota, hour>>

\* Lines 187-188: the 5 s delay settles and startBot is called again.  The
\* restart is followed while a loop slot is left for it to fill.
RestartDelayDone ==
  /\ botpc = "restartDelay"
  /\ Cardinality(UsedSlots) < MaxLoops
  /\ botpc' = "startBot"
  /\ critical' = ""
  /\ UNCHANGED <<awaited, loops, quota, hour>>

\* ------------------------------------------------------ the wallet loop
\* Lines 77-82: each remote call resolves, or rejects into the catch.
Connect(l) ==
  /\ At(l, "connect")
  /\ \/ Set(l, [loops[l] EXCEPT !.pc = "getBalance"])
     \/ Set(l, Errored(loops[l]))
  /\ UNCHANGED <<botpc, awaited, critical, quota, hour>>

GetBalance(l) ==
  /\ At(l, "getBalance")
  /\ \/ Set(l, [loops[l] EXCEPT !.pc = "login"])
     \/ Set(l, Errored(loops[l]))
  /\ UNCHANGED <<botpc, awaited, critical, quota, hour>>

\* A hydration that goes from login straight to getSessions.
LoginSkips(l) ==
  /\ At(l, "login")
  /\ \/ Set(l, [loops[l] EXCEPT !.pc = "getSessions"])
     \/ Set(l, Errored(loops[l]))
  /\ UNCHANGED <<botpc, awaited, critical, quota, hour>>

Login(l) ==
  /\ At(l, "login")
  /\ \/ Set(l, [loops[l] EXCEPT !.pc = "getAgents"])
     \/ Set(l, Errored(loops[l]))
  /\ UNCHANGED <<botpc, awaited, critical, quota, hour>>

GetAgents(l) ==
  /\ At(l, "getAgents")
  /\ \/ \E agents \in AgentLists :
          Set(l, [loops[l] EXCEPT !.pc = "getSessions", !.agents = agents])
     \/ Set(l, Errored(loops[l]))
  /\ UNCHANGED <<botpc, awaited, critical, quota, hour>>

GetSessions(l) ==
  /\ At(l, "getSessions")
  /\ \/ \E sessions \in SessionLists :
          Set(l, [loops[l] EXCEPT !.pc = "getFractalInfo",
                                  !.sessions = sessions])
     \/ Set(l, Errored(loops[l]))
  /\ UNCHANGED <<botpc, awaited, critical, quota, hour>>

GetFractalInfo(l) ==
  /\ At(l, "getFractalInfo")
  /\ \/ Set(l, AfterHydrate(loops[l]))
     \/ Set(l, Errored(loops[l]))
  /\ UNCHANGED <<botpc, awaited, critical, quota, hour>>

\* Lines 89-93: the 10 s delay settles and "No agents available" is thrown.
NoAgentsDelayDone(l) ==
  /\ At(l, "noAgentsDelay")
  /\ Set(l, Errored(loops[l]))
  /\ UNCHANGED <<botpc, awaited, critical, quota, hour>>

\* Lines 118-131: the start call resolves with a truthy result.
\* The retry counters are not read again and are dropped.
RecordStart(r, count, now) ==
  IF QuotaReached(count)
    THEN HandleSessionLimit(r, now)
    ELSE [r EXCEPT !.pc = "delay2s", !.retryCount = 0, !.calls = 0,
                   !.backoffs = 0, !.sawFalsy = FALSE]

\* A start that is counted twice.
IncrementTwice(count) == count + 2

\* Line 119: sessionCount++
Increment(count) == count + 1

StartTruthy(l) ==
  /\ At(l, "startMatch")
  /\ sessionCount' = Increment(sessionCount)
  /\ lastSessionTime' = hour
  /\ Set(l, RecordStart(loops[l], sessionCount', hour))
  /\ UNCHANGED <<botpc, awaited, critical, hour>>

\* Lines 109-118: the start call resolves with a falsy result: nothing is
\* counted, the while condition is read again and the call is repeated.
AfterFalsy(r) ==
  IF RetryLoopContinues(r.retryCount)
    THEN [r EXCEPT !.calls = r.calls + 1, !.sawFalsy = TRUE]
    ELSE Matching(r, r.idx + 1)

StartFalsy(l) ==
  /\ At(l, "startMatch")
  /\ loops[l].calls < MaxCalls
  /\ Set(l, AfterFalsy(loops[l]))
  /\ UNCHANGED <<botpc, awaited, critical, quota, hour>>

\* An inner catch that rethrows into the outer one once the budget is used up.
AfterRaiseEscalates(r) ==
  LET n == r.retryCount + 1
  IN  IF n >= maxRetries
        THEN Errored(r)
        ELSE [r EXCEPT !.pc = "backoff", !.retryCount = n,
                       !.backoffs = r.backoffs + 1]

\* Lines 133-141: the start call rejects.
AfterRaise(r) ==
  LET n == r.retryCount + 1
  IN  IF RetriesExhausted(n)
        THEN Matching([r EXCEPT !.retryCount = n], r.idx + 1)
        ELSE [r EXCEPT !.pc = "backoff", !.retryCount = n,
                       !.backoffs = r.backoffs + 1]

StartRaises(l) ==
  /\ At(l, "startMatch")
  /\ Set(l, AfterRaise(loops[l]))
  /\ UNCHANGED <<botpc, awaited, critical, quota, hour>>

\* Lines 140, 109-116: the 10 s backoff settles; the while condition is read
\* and the start call is made again.
AfterBackoff(r) ==
  IF RetryLoopContinues(r.retryCount)
    THEN [r EXCEPT !.pc = "startMatch", !.calls = r.calls + 1]
    ELSE Matching(r, r.idx + 1)

BackoffDone(l) ==
  /\ At(l, "backoff")
  /\ Set(l, AfterBackoff(loops[l]))
  /\ UNCHANGED <<botpc, awaited, critical, quota, hour>>

\* Lines 130-131: the 2 s delay settles; break, next session.
Delay2sDone(l) ==
  /\ At(l, "delay2s")
  /\ Set(l, Matching(loops[l], loops[l].idx + 1))
  /\ UNCHANGED <<botpc, awaited, critical, quota, hour>>

\* Lines 156-161: the cool-down settles; runWallet(key) is called again.
CoolDownDone(l) ==
  /\ At(l, "coolDown")
  /\ Set(l, RunWallet(loops[l].key, sessionCount, hour))
  /\ UNCHANGED <<botpc, awaited, critical, quota, hour>>

\* Lines 166-167: the 10 s delay of the catch settles; runWallet(key) again.
ErroredDone(l) ==
  /\ At(l, "Errored")
  /\ Set(l, RunWallet(loops[l].key, sessionCount, hour))
  /\ UNCHANGED <<botpc, awaited, critical, quota, hour>>

\* Lines 58-63 and 74 / 127: the delay of handleSessionLimit settles, which it
\* does no earlier than the hour it was set for; the counter is cleared and
\* runWallet(key) is called again.
ResetCount == 0

\* A reset that clears the counter and forgets the timestamp.
ResetWaitDoneKeepsTime(l) ==
  /\ At(l, "resetWait")
  /\ hour >= loops[l].resetAt
  /\ sessionCount' = ResetCount
  /\ lastSessionTime' = lastSessionTime
  /\ Set(l, RunWallet(loops[l].key, sessionCount', hour))
  /\ UNCHANGED <<botpc, awaited, critical, hour>>

ResetWaitDone(l) ==
  /\ At(l, "resetWait")
  /\ hour >= loops[l].resetAt
  /\ sessionCount' = ResetCount
  /\ lastSessionTime' = Null
  /\ Set(l, RunWallet(loops[l].key, sessionCount', hour))
  /\ UNCHANGED <<botpc, awaited, critical, hour>>

\* The wall clock passes the top of an hour.
Tick ==
  /\ Running
  /\ hour < MaxHour
  /\ hour' = hour + 1
  /\ UNCHANGED <<botpc, awaited, critical, loops, sessionCount, lastSessionTime>>

\* Under Spec the history variables are not recorded.
Next ==
  \/ LoadConfig /\ UNCHANGED history
  \/ StartBot /\ UNCHANGED history
  \/ RestartDelayDone /\ UNCHANGED history
  \/ Tick /\ UNCHANGED history
  \/ \E l \in Slots : Connect(l) /\ UNCHANGED history
  \/ \E l \in Slots : GetBalance(l) /\ UNCHANGED history
  \/ \E l \in Slots : Login(l) /\ UNCHANGED history
  \/ \E l \in Slots : GetAgents(l) /\ UNCHANGED history
  \/ \E l \in Slots : GetSessions(l) /\ UNCHANGED history
  \/ \E l \in Slots : GetFractalInfo(l) /\ UNCHANGED history
  \/ \E l \in Slots : NoAgentsDelayDone(l) /\ UNCHANGED history
  \/ \E l \in Slots : StartTruthy(l) /\ UNCHANGED history
  \/ \E l \in Slots : StartFalsy(l) /\ UNCHANGED history
  \/ \E l \in Slots : StartRaises(l) /\ UNCHANGED history
  \/ \E l \in Slots : BackoffDone(l) /\ UNCHANGED history
  \/ \E l \in Slots : Delay2sDone(l) /\ UNCHANGED history
  \/ \E l \in Slots : CoolDownDone(l) /\ UNCHANGED history
  \/ \E l \in Slots : ErroredDone(l) /\ UNCHANGED history
  \/ \E l \in Slots : ResetWaitDone(l) /\ UNCHANGED history

Spec == Init /\ [][Next]_vars

\* ------------------------------------------------ two wallets, observed
\* The state Spec reaches by loading a config and a data.txt of two good keys
\* (lines 176-184): both loops at their first await, the supervisor in
\* Promise.all.
InitWallets ==
  /\ interruptible = FALSE
  /\ timers = NoTimers
  /\ iter = [l \in Slots |-> NoCalls]
  /\ parity = 0
  /\ botpc = "awaitAll"
  /\ awaited = {1, 2}
  /\ critical = ""
  /\ loops = [l \in Slots |->
                IF l = 1 THEN RunWallet("k1", 0, 0)
                ELSE IF l = 2 THEN RunWallet("k2", 0, 0)
                ELSE Unused]
  /\ sessionCount = 0
  /\ lastSessionTime = Null
  /\ hour = 0
  /\ startsInHour = 0
  /\ own = [l \in Slots |-> 0]

\* A start call of loop l resolved truthy in this step: lines 118-131 lead
\* from the await of the call to the 2 s delay or into handleSessionLimit.
TruthyStep(l) ==
  /\ loops[l].pc = "startMatch"
  /\ loops'[l].pc \in {"delay2s", "resetWait"}

\* Loop l left handleSessionLimit in this step.
ResetStep(l) ==
  /\ loops[l].pc = "resetWait"
  /\ loops'[l] # loops[l]

Observe ==
  /\ startsInHour' =
       IF hour' # hour THEN 0
       ELSE IF \E l \in Slots : TruthyStep(l) THEN startsInHour + 1
       ELSE startsInHour
  /\ own' = [l \in Slots |->
               IF TruthyStep(l) THEN Min(own[l] + 1, SessionLimit)
               ELSE IF ResetStep(l) THEN 0
               ELSE own[l]]
  /\ UNCHANGED <<iter, parity, interruptible, timers>>

NextWallets ==
  \/ Tick /\ Observe
  \/ \E l \in Slots : Connect(l) /\ Observe
  \/ \E l \in Slots : GetBalance(l) /\ Observe
  \/ \E l \in Slots : Login(l) /\ Observe
  \/ \E l \in Slots : GetAgents(l) /\ Observe
  \/ \E l \in Slots : GetSessions(l) /\ Observe
  \/ \E l \in Slots : GetFractalInfo(l) /\ Observe
  \/ \E l \in Slots : NoAgentsDelayDone(l) /\ Observe
  \/ \E l \in Slots : StartTruthy(l) /\ Observe
  \/ \E l \in Slots : StartFalsy(l) /\ Observe
  \/ \E l \in Slots : StartRaises(l) /\ Observe
  \/ \E l \in Slots : BackoffDone(l) /\ Observe
  \/ \E l \in Slots : Delay2sDone(l) /\ Observe
  \/ \E l \in Slots : CoolDownDone(l) /\ Observe
  \/ \E l \in Slots : ErroredDone(l) /\ Observe
  \/ \E l \in Slots : ResetWaitDone(l) /\ Observe

SpecWallets == InitWallets /\ [][NextWallets]_vars

\* ------------------------------------------- one wallet, calls observed
\* The awaits of lines 77-82, by the name of the call awaited.
RemoteCalls ==
  {"connect", "getBalance", "login", "getAgents", "getSessions",
   "getFractalInfo"}

\* Lines 74, 127, 161, 167: the step of loop l called runWallet(key) again.
Reenters(l) ==
  /\ loops[l].pc \in {"coolDown", "Errored", "resetWait"}
  /\ loops'[l] # loops[l]

\* The calls of the current iteration of loop l after this step.
IterAfter(l) ==
  LET base == IF Reenters(l) THEN NoCalls ELSE iter[l]
      next == loops'[l].pc
  IN  IF loops'[l] = loops[l] THEN iter[l]
      ELSE [ made   |-> IF next \in RemoteCalls
                          THEN Append(base.made, next) ELSE base.made,
             starts |-> IF next = "startMatch"
                          THEN Append(base.starts, loops'[l].idx)
                          ELSE base.starts,
             clean  |-> base.clean /\
                          (loops[l].pc = "startMatch" => TruthyStep(l)) ]

ObserveIter ==
  /\ iter' = [l \in Slots |-> IterAfter(l)]
  /\ UNCHANGED <<startsInHour, own, parity, interruptible, timers>>

\* The state Spec reaches by loading a config and a data.txt of one good
\* key: the loop at its await of connect (line 77).
InitIter ==
  /\ interruptible = FALSE
  /\ timers = NoTimers
  /\ iter = [l \in Slots |->
               IF l = 1 THEN [NoCalls EXCEPT !.made = <<"connect">>]
                        ELSE NoCalls]
  /\ parity = 0
  /\ botpc = "awaitAll"
  /\ awaited = {1}
  /\ critical = ""
  /\ loops = [l \in Slots |->
                IF l = 1 THEN RunWallet("k1", 0, 0) ELSE Unused]
  /\ sessionCount = 0
  /\ lastSessionTime = Null
  /\ hour = 0
  /\ startsInHour = 0
  /\ own = [l \in Slots |-> 0]

NextIter ==
  \/ Tick /\ ObserveIter
  \/ Connect(1) /\ ObserveIter
  \/ GetBalance(1) /\ ObserveIter
  \/ Login(1) /\ ObserveIter
  \/ GetAgents(1) /\ ObserveIter
  \/ GetSessions(1) /\ ObserveIter
  \/ GetFractalInfo(1) /\ ObserveIter
  \/ NoAgentsDelayDone(1) /\ ObserveIter
  \/ StartTruthy(1) /\ ObserveIter
  \/ StartFalsy(1) /\ ObserveIter
  \/ StartRaises(1) /\ ObserveIter
  \/ BackoffDone(1) /\ ObserveIter
  \/ Delay2sDone(1) /\ ObserveIter
  \/ CoolDownDone(1) /\ ObserveIter
  \/ ErroredDone(1) /\ ObserveIter
  \/ ResetWaitDone(1) /\ ObserveIter

SpecIter == InitIter /\ [][NextIter]_vars

\* ------------------------------------------- one wallet, every await settles
\* Lines 109-118 once the history counter `calls` stands at MaxCalls: the
\* start call resolves falsy again, nothing is counted, the while condition
\* is read again and the call is repeated.
StartFalsyAgain(l) ==
  /\ At(l, "startMatch")
  /\ loops[l].calls >= MaxCalls
  /\ RetryLoopContinues(loops[l].retryCount)
  /\ Set(l, [loops[l] EXCEPT !.sawFalsy = TRUE])
  /\ UNCHANGED <<botpc, awaited, critical, quota, hour>>

\* A start call resolved falsy / any other step.
FalsySeen ==
  /\ parity' = 1 - parity
  /\ UNCHANGED <<startsInHour, own, iter, interruptible, timers>>

NoFalsySeen == UNCHANGED history

\* The awaited call or timer of loop l settles, one way or another.
Settles(l) ==
  \/ Connect(l) /\ NoFalsySeen
  \/ GetBalance(l) /\ NoFalsySeen
  \/ Login(l) /\ NoFalsySeen
  \/ GetAgents(l) /\ NoFalsySeen
  \/ GetSessions(l) /\ NoFalsySeen
  \/ GetFractalInfo(l) /\ NoFalsySeen
  \/ NoAgentsDelayDone(l) /\ NoFalsySeen
  \/ StartTruthy(l) /\ NoFalsySeen
  \/ StartFalsy(l) /\ FalsySeen
  \/ StartFalsyAgain(l) /\ FalsySeen
  \/ StartRaises(l) /\ NoFalsySeen
  \/ BackoffDone(l) /\ NoFalsySeen
  \/ Delay2sDone(l) /\ NoFalsySeen
  \/ CoolDownDone(l) /\ NoFalsySeen
  \/ ErroredDone(l) /\ NoFalsySeen
  \/ ResetWaitDone(l) /\ NoFalsySeen

TimePasses == Tick /\ NoFalsySeen

NextFair ==
  \/ TimePasses
  \/ Settles(1)

\* Every remote call and every timed wait of the loop eventually settles, by
\* resolving or rejecting as the remote side decides, and time passes.
SpecFair ==
  InitIter /\ [][NextFair]_vars /\ WF_vars(TimePasses) /\ WF_vars(Settles(1))

\* ------------------------------------- one wallet, an interruptible wait
\* Tools.delay is the cancellable wait of the delay utility: the wait of
\* handleSessionLimit (line 58) may be interrupted, and then rejects.
DelayMayReject == TRUE

ActiveTimers ==
  LET RECURSIVE Sum(_)
      Sum(h) == IF h = 0 THEN 0 ELSE timers[h] + Sum(h - 1)
  IN  Sum(MaxHour + 1)

\* The loops waiting in handleSessionLimit for the top of hour h.
Pending(h) ==
  { l \in Slots : loops[l].pc = "resetWait" /\ loops[l].resetAt = h }

\* Lines 58, 73 / 126: the rejection of the delay leaves handleSessionLimit
\* before lines 59-63 and is caught around the call site: by the catch of
\* line 162 when the call is the one of the gate (line 73), by the catch of
\* line 133, with the retry loop's locals, when it is the one of line 126.
AfterResetRaise(r) ==
  IF r.idx = 0 THEN Errored(r) ELSE AfterRaise([r EXCEPT !.resetAt = 0])

\* The interruption is followed while fewer than MaxTimers countdown
\* intervals are active.
ResetWaitRaises(l) ==
  /\ At(l, "resetWait")
  /\ interruptible
  /\ ActiveTimers < MaxTimers
  /\ Set(l, AfterResetRaise(loops[l]))
  /\ UNCHANGED <<botpc, awaited, critical, quota, hour>>

\* Lines 45-56: a step that enters handleSessionLimit has set the countdown
\* interval, which counts down to the top of the hour the delay waits for.
TimersAfter ==
  /\ timers' =
       [h \in Hours |->
          timers[h] + Cardinality({ l \in Slots :
                                     /\ loops[l].pc # "resetWait"
                                     /\ loops'[l].pc = "resetWait"
                                     /\ loops'[l].resetAt = h })]
  /\ UNCHANGED <<startsInHour, own, iter, parity, interruptible>>

\* Line 59: clearInterval(countdownInterval) once the delay has resolved.
TimerCleared(l) ==
  /\ timers' = [timers EXCEPT ![loops[l].resetAt] = @ - 1]
  /\ UNCHANGED <<startsInHour, own, iter, parity, interruptible>>

\* Lines 51-55: an interval that nothing cleared runs out of seconds at the
\* top of its hour and clears itself.
TimerRunsOut(h) ==
  /\ Running
  /\ hour >= h
  /\ timers[h] > Cardinality(Pending(h))
  /\ timers' = [timers EXCEPT ![h] = @ - 1]
  /\ UNCHANGED <<botpc, awaited, critical, loops, quota, hour,
                 startsInHour, own, iter, parity, interruptible>>

InitWaits ==
  /\ interruptible = DelayMayReject
  /\ timers = NoTimers
  /\ iter = [l \in Slots |-> NoCalls]
  /\ parity = 0
  /\ botpc = "awaitAll"
  /\ awaited = {1}
  /\ critical = ""
  /\ loops = [l \in Slots |->
                IF l = 1 THEN RunWallet("k1", 0, 0) ELSE Unused]
  /\ sessionCount = 0
  /\ lastSessionTime = Null
  /\ hour = 0
  /\ startsInHour = 0
  /\ own = [l \in Slots |-> 0]

NextWaits ==
  \/ Tick /\ TimersAfter
  \/ \E h \in Hours : TimerRunsOut(h)
  \/ Connect(1) /\ TimersAfter
  \/ GetBalance(1) /\ TimersAfter
  \/ Login(1) /\ TimersAfter
  \/ GetAgents(1) /\ TimersAfter
  \/ GetSessions(1) /\ TimersAfter
  \/ GetFractalInfo(1) /\ TimersAfter
  \/ NoAgentsDelayDone(1) /\ TimersAfter
  \/ StartTruthy(1) /\ TimersAfter
  \/ StartFalsy(1) /\ TimersAfter
  \/ StartRaises(1) /\ TimersAfter
  \/ BackoffDone(1) /\ TimersAfter
  \/ Delay2sDone(1) /\ TimersAfter
  \/ CoolDownDone(1) /\ TimersAfter
  \/ ErroredDone(1) /\ TimersAfter
  \/ ResetWaitDone(1) /\ TimerCleared(1)
  \/ ResetWaitRaises(1) /\ TimersAfter

SpecWaits == InitWaits /\ [][NextWaits]_vars

\* ------------------------------------------------ one wallet, cool-down
\* durationPerRound and rounds with the products 200, 45, 90 and 300.
Rounds == { <<100, 2>>, <<15, 3>>, <<45, 2>>, <<150, 2>> }

SessionTypes == {1, 2}

RECURSIVE SessionsUpTo(_)
SessionsUpTo(n) ==
  IF n = 0 THEN { <<>> }
  ELSE LET shorter == SessionsUpTo(n - 1)
       IN  shorter \cup
             { Append(ss, Session(t, dr[1], dr[2])) :
                 ss \in { x \in shorter : Len(x) = n - 1 },
                 t \in SessionTypes, dr \in Rounds }

\* What getSessions may have returned, up to MaxSessions sessions.
WideSessions == SessionsUpTo(MaxSessions)

\* One loop whose getAgents returned the target agent and whose getSessions
\* returned any of WideSessions, at its await of getFractalInfo (line 82).
InitCoolDown ==
  /\ interruptible = FALSE
  /\ timers = NoTimers
  /\ iter = [l \in Slots |-> NoCalls]
  /\ parity = 0
  /\ botpc = "awaitAll"
  /\ awaited = {1}
  /\ critical = ""
  /\ \E agents \in { a \in AgentLists : FindTarget(a) # 0 },
        sessions \in WideSessions :
        loops = [l \in Slots |->
                   IF l = 1
                     THEN [Unused EXCEPT !.pc = "getFractalInfo",
                                         !.key = "k1", !.agents = agents,
                                         !.sessions = sessions]
                     ELSE Unused]
  /\ sessionCount = 0
  /\ lastSessionTime = Null
  /\ hour = 0
  /\ startsInHour = 0
  /\ own = [l \in Slots |-> 0]

\* The iteration from there to its cool-down delay.
NextCoolDown ==
  \/ GetFractalInfo(1) /\ UNCHANGED history
  \/ StartTruthy(1) /\ UNCHANGED history
  \/ StartFalsy(1) /\ UNCHANGED history
  \/ StartRaises(1) /\ UNCHANGED history
  \/ BackoffDone(1) /\ UNCHANGED history
  \/ Delay2sDone(1) /\ UNCHANGED history

SpecCoolDown == InitCoolDown /\ [][NextCoolDown]_vars

\* ------------------------------------------------------------ the claims
\* What one step did, read off the loop's record before and after it.
Moved(l) == loops'[l] # loops[l]

\* Loop l made a start call in this step: every step that ends at the await
\* of a start call has just made that call.
IssuesStart(l) == Moved(l) /\ loops'[l].pc = "startMatch"

\* The start call of loop l resolved falsy and was repeated.
FalsyStep(l) ==
  /\ loops[l].pc = "startMatch"
  /\ loops'[l].pc = "startMatch"
  /\ loops'[l].idx = loops[l].idx
  /\ loops'[l].retryCount = loops[l].retryCount
  /\ loops'[l].calls = loops[l].calls + 1

\* The retry loop of the session at idx ended without a truthy result: the
\* for loop went on to a later session or to the cool-down.
GivesUp(l) ==
  /\ loops[l].pc \in {"startMatch", "backoff"}
  /\ Moved(l)
  /\ ~TruthyStep(l)
  /\ \/ loops'[l].pc = "coolDown"
     \/ loops'[l].pc = "startMatch" /\ loops'[l].idx # loops[l].idx

\* Nothing but loop l changed.
OnlyLoopMoves(l) ==
  /\ \A m \in Slots \ {l} : loops'[m] = loops[m]
  /\ UNCHANGED <<botpc, awaited, critical, sessionCount, lastSessionTime>>

HasTarget(r) == FindTarget(r.agents) # 0

HasAutomatedTarget(r) ==
  HasTarget(r) /\ TargetAgent(r.agents).automationEnabled

\* C1 (quota gate, as claimed): whenever a loop makes a start call,
\* sessionCount is below 6.  Refuted: a loop that passed its gate earlier makes
\* its next start call after another loop's sixth start.
C1_QuotaGate ==
  [][\A l \in Slots : IssuesStart(l) => sessionCount' < SessionLimit]_vars

\* C2 (rate cap, as claimed): at most 6 start calls resolve truthy within one
\* wall-clock hour, over all loops.  Refuted under SpecWallets.
C2_RateCap == startsInHour <= SessionLimit

\* C3 (bounded retry, as claimed): the start function is called at most 3
\* times for one session of one iteration, whatever the calls do.  Refuted
\* by calls that resolve falsy.
C3_BoundedRetry == \A l \in Slots : loops[l].calls <= maxRetries

\* C4 (match attempt policy): while no call for the session has resolved
\* falsy, a truthy result after N raises comes with N < 3, on call N+1, after
\* N backoff delays, and is counted; and the retry loop gives up only on the
\* raise of the third call, after exactly 2 backoff delays, never out of a
\* backoff delay and never into the catch of the iteration.
C4_AttemptPolicy ==
  [][\A l \in Slots :
       /\ (TruthyStep(l) /\ ~loops[l].sawFalsy) =>
            /\ loops[l].retryCount < 3
            /\ loops[l].calls = loops[l].retryCount + 1
            /\ loops[l].backoffs = loops[l].retryCount
            /\ sessionCount' = sessionCount + 1
       /\ (GivesUp(l) /\ ~loops[l].sawFalsy) =>
            /\ loops[l].pc = "startMatch"
            /\ loops[l].retryCount = 2
            /\ loops[l].calls = 3
            /\ loops[l].backoffs = 2
       /\ (loops[l].pc \in {"startMatch", "backoff"} /\ Moved(l)) =>
            loops'[l].pc # "Errored"]_vars

\* A loop in its cool-down after three raises, two backoffs and three calls
\* for its last session.
C4_Witness ==
  \E l \in Slots :
    /\ loops[l].pc = "coolDown"
    /\ loops[l].retryCount = 3
    /\ loops[l].calls = 3
    /\ loops[l].backoffs = 2
    /\ ~loops[l].sawFalsy

\* C5 (counter bookkeeping): sessionCount grows only in a step in which a
\* start call resolves truthy, and then by exactly 1; a step that neither
\* resolves a start call truthy nor leaves handleSessionLimit changes neither
\* sessionCount nor lastSessionTime.
C5_CounterBookkeeping ==
  [][/\ sessionCount' > sessionCount => \E l \in Slots : TruthyStep(l)
     /\ (\E l \in Slots : TruthyStep(l)) => sessionCount' = sessionCount + 1
     /\ (\A l \in Slots : ~TruthyStep(l) /\ ~ResetStep(l)) =>
          UNCHANGED <<sessionCount, lastSessionTime>>]_vars

\* The counter stands at 3 while one loop waits out a backoff after a raise
\* and another sits in its catch.
C5_Witness ==
  /\ sessionCount = 3
  /\ lastSessionTime # Null
  /\ \E l, m \in Slots :
       loops[l].pc = "backoff" /\ loops[m].pc = "Errored"

\* C6 (already-automated agent): a loop is at a start call, a backoff or the
\* 2 s delay only with a target agent that is not automated; and the step
\* that ends the hydration of an iteration whose target agent is automated
\* leads to the cool-down (or, the call failing, to the catch) and leaves
\* sessionCount and lastSessionTime alone.
C6_AlreadyAutomated ==
  /\ [](\A l \in Slots :
          loops[l].pc \in {"startMatch", "backoff", "delay2s"} =>
            HasTarget(loops[l]) /\ ~HasAutomatedTarget(loops[l]))
  /\ [][\A l \in Slots :
          (/\ loops[l].pc = "getFractalInfo"
           /\ HasAutomatedTarget(loops[l])
           /\ Moved(l)) =>
            /\ loops'[l].pc \in {"coolDown", "Errored"}
            /\ UNCHANGED <<sessionCount, lastSessionTime>>]_vars

\* A loop in its cool-down whose automated target agent has a matching
\* session, with the counter untouched.
C6_Witness ==
  \E l \in Slots :
    /\ loops[l].pc = "coolDown"
    /\ HasAutomatedTarget(loops[l])
    /\ NextMatching(loops[l].sessions, TargetAgent(loops[l].agents), 1) # 0
    /\ sessionCount = 0

\* C7 (wallet independence, as claimed): a loop is in handleSessionLimit
\* only after 6 truthy start results of its own.  Refuted under SpecWallets:
\* the counter is shared.
C7_OwnStartsOnly ==
  \A l \in Slots : loops[l].pc = "resetWait" => own[l] >= SessionLimit

\* C8 (recoverable iteration error): a hydrate call leads to the next call
\* or, failing, to the catch; an empty agent list leads to the 10 s wait and
\* then to the catch; a missing target agent leads to the catch; the step
\* into the catch and the step out of it change nothing but that loop; and
\* the step out of it re-enters runWallet at the quota gate.
C8_RecoverableIteration ==
  [][\A l \in Slots : Moved(l) =>
       /\ loops[l].pc = "connect" =>
            loops'[l].pc \in {"getBalance", "Errored"}
       /\ loops[l].pc = "getBalance" =>
            loops'[l].pc \in {"login", "Errored"}
       /\ loops[l].pc = "login" =>
            loops'[l].pc \in {"getAgents", "Errored"}
       /\ loops[l].pc = "getAgents" =>
            loops'[l].pc \in {"getSessions", "Errored"}
       /\ loops[l].pc = "getSessions" =>
            loops'[l].pc \in {"getFractalInfo", "Errored"}
       /\ (loops[l].pc = "getFractalInfo" /\ Len(loops[l].agents) = 0) =>
            loops'[l].pc \in {"noAgentsDelay", "Errored"}
       /\ (loops[l].pc = "getFractalInfo" /\ Len(loops[l].agents) # 0
             /\ ~HasTarget(loops[l])) =>
            loops'[l].pc = "Errored"
       /\ loops[l].pc = "noAgentsDelay" => loops'[l].pc = "Errored"
       /\ loops'[l].pc = "Errored" => OnlyLoopMoves(l)
       /\ loops[l].pc = "Errored" =>
            /\ OnlyLoopMoves(l)
            /\ loops'[l].key = loops[l].key
            /\ loops'[l].pc =
                 IF sessionCount >= SessionLimit THEN "resetWait"
                                                 ELSE "connect"]_vars

\* One loop in its catch while another is between two start calls and the
\* supervisor waits in Promise.all.
C8_Witness ==
  /\ botpc = "awaitAll"
  /\ sessionCount > 0
  /\ \E l, m \in Slots :
       loops[l].pc = "Errored" /\ loops[m].pc = "delay2s"

\* C9 (attempt-level errors stay local): no step from a start call or a
\* backoff leads into the catch or back to connect, and none but a counted
\* start changes the agents and sessions of the iteration; the raise of the
\* third call leads to the start call of the next matching session, or to
\* the cool-down when there is none.
C9_AttemptErrorsStayLocal ==
  [][\A l \in Slots :
       (loops[l].pc \in {"startMatch", "backoff"} /\ Moved(l)) =>
         /\ loops'[l].pc \in
              {"startMatch", "backoff", "delay2s", "resetWait", "coolDown"}
         /\ ~TruthyStep(l) =>
              /\ loops'[l].agents = loops[l].agents
              /\ loops'[l].sessions = loops[l].sessions
         /\ (/\ loops[l].pc = "startMatch"
             /\ loops[l].retryCount = maxRetries - 1
             /\ ~TruthyStep(l)
             /\ ~FalsyStep(l)) =>
              LET j == NextMatching(loops[l].sessions,
                                    TargetAgent(loops[l].agents),
                                    loops[l].idx + 1)
              IN  IF j = 0
                    THEN loops'[l].pc = "coolDown"
                    ELSE loops'[l].pc = "startMatch" /\ loops'[l].idx = j]_vars

\* A loop at the first start call of its second session with nothing counted
\* and nothing in flight before: the three calls of the first session raised.
C9_Witness ==
  /\ sessionCount = 0
  /\ \E l \in Slots :
       /\ loops[l].pc = "startMatch"
       /\ loops[l].idx = 2
       /\ loops[l].calls = 1
       /\ NextMatching(loops[l].sessions, TargetAgent(loops[l].agents), 1) = 1
       /\ \A m \in Slots \ {l} : loops[m].pc = "unused"

KeyErrors == {NoDataFile, NoKeys}

Durations(sessions) ==
  { sessions[i].durationPerRound * sessions[i].rounds :
      i \in 1..Len(sessions) }

Least(S) == CHOOSE m \in S : \A x \in S : m <= x

\* C11 (cool-down computation): whenever a loop is in its cool-down delay,
\* the wait in seconds is the least of 60 and the products
\* durationPerRound * rounds of all its sessions, of the target's type or
\* not; so it is at most 60.
C11_CoolDownComputation ==
  \A l \in Slots :
    loops[l].pc = "coolDown" =>
      /\ loops[l].minDuration =
           Least(Durations(loops[l].sessions) \cup {minDurationInit})
      /\ loops[l].minDuration <= minDurationInit

\* A loop in its cool-down of 45 s after sessions of 200, 45 and 90 s, the
\* one of 45 s not of the target's type.
C11_Witness ==
  \E l \in Slots :
    /\ loops[l].pc = "coolDown"
    /\ loops[l].minDuration = 45
    /\ Len(loops[l].sessions) = 3
    /\ Durations(loops[l].sessions) = {200, 45, 90}
    /\ \E i \in 1..3 :
         /\ loops[l].sessions[i].durationPerRound = 15
         /\ loops[l].sessions[i].sessionType #
              TargetAgent(loops[l].agents).sessionType

\* The positions of the sessions of the target's type, in the order of
\* wallet.sessions.
MatchingIndices(sessions, target) ==
  SelectSeq([i \in 1..Len(sessions) |-> i],
            LAMBDA i : sessions[i].sessionType = target.sessionType)

IsPrefix(s, t) ==
  /\ Len(s) <= Len(t)
  /\ \A i \in 1..Len(s) : s[i] = t[i]

\* The step of loop l ends the matching phase of its iteration: it leads to
\* the cool-down or into handleSessionLimit.
LeavesMatching(l) ==
  /\ loops[l].pc \in {"getFractalInfo", "startMatch", "backoff", "delay2s"}
  /\ loops'[l].pc \in {"coolDown", "resetWait"}

\* Loop l has a target agent that is not automated and every start call of
\* its iteration, this step's included, resolved truthy.
AllTruthy(l) ==
  /\ HasTarget(loops[l])
  /\ ~HasAutomatedTarget(loops[l])
  /\ iter'[l].clean

\* C12 (exactly-once start, as claimed): when the matching phase of such an
\* iteration ends, one start call has been made for every session of the
\* target's type and none for any other.  Refuted: the sixth counted start
\* ends the iteration before its later sessions.
C12_ExactlyOnce ==
  [][\A l \in Slots :
       (LeavesMatching(l) /\ AllTruthy(l)) =>
         iter'[l].starts =
           MatchingIndices(loops[l].sessions, TargetAgent(loops[l].agents))]_vars

\* C12 (amended): in such an iteration the start calls made so far are for
\* the first sessions of the target's type, in order and once each; the
\* iteration that reaches its cool-down has made one for each of them; the
\* one that ends in handleSessionLimit has made at least one and has
\* brought sessionCount to 6 or more.
C12_OncePerSessionUntilQuota ==
  /\ [](\A l \in Slots :
          (loops[l].pc \in {"startMatch", "delay2s"} /\ iter[l].clean) =>
            /\ iter[l].starts # <<>>
            /\ IsPrefix(iter[l].starts,
                        MatchingIndices(loops[l].sessions,
                                        TargetAgent(loops[l].agents))))
  /\ [][\A l \in Slots :
          (LeavesMatching(l) /\ AllTruthy(l)) =>
            LET all == MatchingIndices(loops[l].sessions,
                                       TargetAgent(loops[l].agents))
            IN  IF loops'[l].pc = "coolDown"
                  THEN iter'[l].starts = all
                  ELSE /\ iter'[l].starts # <<>>
                       /\ IsPrefix(iter'[l].starts, all)
                       /\ sessionCount' >= SessionLimit]_vars

\* A loop in its cool-down after one start call for each of its two sessions
\* of the target's type, both counted.
C12_Witness ==
  \E l \in Slots :
    /\ loops[l].pc = "coolDown"
    /\ iter[l].clean
    /\ iter[l].starts = <<1, 2>>
    /\ sessionCount = 2

\* The order of lines 77-82.
HydrateOrder ==
  <<"connect", "getBalance", "login", "getAgents", "getSessions",
    "getFractalInfo">>

\* C16 (hydrate ordering): the remote calls an iteration has made are the
\* first calls of connect, getBalance, login, getAgents, getSessions,
\* getFractalInfo, in that order and once each; a start call is made only
\* in an iteration that has made all six; a step that leaves one of the six
\* leads to the next call or ends the hydration, or leads to the catch
\* without any further call; and the step out of the catch begins a new
\* iteration.
C16_HydrateOrdering ==
  /\ [](\A l \in Slots :
          /\ IsPrefix(iter[l].made, HydrateOrder)
          /\ loops[l].pc \in RemoteCalls =>
               /\ iter[l].made # <<>>
               /\ iter[l].made[Len(iter[l].made)] = loops[l].pc
          /\ (iter[l].starts # <<>> \/ loops[l].pc = "startMatch") =>
               iter[l].made = HydrateOrder)
  /\ [][\A l \in Slots :
          /\ (loops[l].pc \in RemoteCalls /\ loops'[l].pc = "Errored") =>
               /\ iter'[l].made = iter[l].made
               /\ iter'[l].starts = <<>>
          /\ (loops[l].pc = "Errored" /\ Moved(l)) =>
               /\ iter'[l].starts = <<>>
               /\ iter'[l].made \in { <<>>, <<"connect">> }]_vars

\* A loop in its catch after login failed: connect, getBalance and login
\* were called and nothing after them.
C16_Witness ==
  \E l \in Slots :
    /\ loops[l].pc = "Errored"
    /\ iter[l].made = <<"connect", "getBalance", "login">>
    /\ iter[l].starts = <<>>

\* Loop l is at step 1: it has just passed the quota gate of line 71 and
\* awaits connect, or it waits in handleSessionLimit.
AtGate(l) == loops[l].pc \in {"connect", "resetWait"}

\* C13 (progress, as claimed): when every call and every wait eventually
\* settles, every running loop is at step 1 again and again.  Refuted under
\* SpecFair by start calls that keep resolving falsy (the bug of C3).
C13_Progress ==
  \A l \in Slots : [](loops[l].pc # "unused" => <>AtGate(l))

\* C14 (unconditional reset, as claimed): every step in which the wait of
\* handleSessionLimit ends, resolved or rejected, leaves sessionCount = 0
\* and lastSessionTime = null.  Refuted under SpecWaits: a rejected wait
\* skips lines 62-63.
C14_UnconditionalReset ==
  [][\A l \in Slots :
       (loops[l].pc = "resetWait" /\ Moved(l)) =>
         (sessionCount' = ResetCount /\ lastSessionTime' = Null)]_vars

\* C17 (countdown timer cleanup, as claimed): there are never more active
\* countdown intervals than loops inside handleSessionLimit.  Refuted under
\* SpecWaits: a rejected wait skips the clearInterval of line 59.
C17_TimerCleanup ==
  ActiveTimers <= Cardinality({ l \in Slots : loops[l].pc = "resetWait" })

\* C15 (reset only on quota, as claimed): whenever the counter is reset,
\* sessionCount is at least 6.  Refuted: of two loops waiting for the same
\* hour, the second resets the counter after the first has counted again.
C15_ResetOnlyOnQuota ==
  [][\A l \in Slots :
       ResetStep(l) => sessionCount >= SessionLimit]_vars

\* C18 (counter bound, as claimed): sessionCount is never above 6.
\* Refuted: a loop that passed the gate counts a start after another
\* loop's sixth (the bug of C1).
C18_CounterBound == sessionCount \in 0..SessionLimit

\* C19 (counter/timestamp consistency): lastSessionTime is null exactly when
\* sessionCount is 0, and every step that changes one of them to or from
\* that state changes the other in the same step.
C19_CounterTimestamp ==
  /\ [](lastSessionTime = Null <=> sessionCount = 0)
  /\ [][/\ (sessionCount = 0 /\ sessionCount' # 0) =>
            (lastSessionTime = Null /\ lastSessionTime' # Null)
        /\ (sessionCount # 0 /\ sessionCount' = 0) =>
            (lastSessionTime # Null /\ lastSessionTime' = Null)
        /\ (lastSessionTime' # lastSessionTime) =>
            (sessionCount' # sessionCount)]_vars

\* Both are cleared in hour 1 by the reset of one loop, now back at connect,
\* while the other loop is still in the 2 s delay after a start that had
\* set both.
C19_Witness ==
  /\ hour = 1
  /\ sessionCount = 0
  /\ lastSessionTime = Null
  /\ \E l, m \in Slots :
       loops[l].pc = "delay2s" /\ loops[m].pc = "connect"

\* C20 (single loop per key, as claimed): no two running loops have the
\* same key.  Refuted: the restart after a rejected runWallet launches
\* every key again next to the loops still running.
C20_SingleLoopPerKey ==
  \A l, m \in Slots :
    (l # m /\ loops[l].pc # "unused" /\ loops[m].pc # "unused") =>
      loops[l].key # loops[m].key

============================================================================
